---------------------------- MODULE Spec2Model ----------------------------
(***************************************************************************)
(* A model of hypercc (src/hypercc): the command line configuration, the   *)
(* threshold derivation, the calibration record, Canny edge detection with *)
(* hysteresis thresholding, region labelling and the abruptness measure.   *)
(*                                                                         *)
(* Numbers.  Gradient magnitudes, calibration scales and thresholds are    *)
(* non-negative reals built with sqrt, products and quotients.  Such a     *)
(* value r is held as the fraction <<n, d>> of its SQUARE, r = sqrt(n/d),  *)
(* so that sqrt, *, / and the comparisons are exact.  d = 0 holds the      *)
(* IEEE values the numpy code produces: <<1, 0>> is inf, <<0, 0>> is nan.  *)
(***************************************************************************)
EXTENDS Integers, Sequences, FiniteSets, TLC

VARIABLES
    pc,           \* position in the function under study
    argv,         \* command line options given to the parser
    config,       \* namespace returned by the argument parser
    calibration,  \* CalibrationRecord (dict returned by calibrate_sobel)
    thresholds,   \* (lower, upper) returned by get_thresholds
    shape,        \* (time, lat, lon) shape of the target field
    data_mask,    \* validity mask of the target: whether it is a MaskedArray,
                  \* and the set of its masked voxels
    sobel_data,   \* physically weighted gradient field, channel -> voxel -> value
    sobel_maxima, \* candidate mask: voxels kept by non-maximum suppression
    edges,        \* EdgeMask: the set of voxels that are 1
    error,        \* exception raised, Null when none
    control,      \* control run: its shape, gradient field, cell areas and mask
    target,       \* target field values and the year of each time step
    call,         \* scalar arguments of the function under study
    result,       \* what the function under study returned
    output        \* the folders and files the run has created

Null == "none"

\* a plain ndarray has no mask; a MaskedArray has the set of its masked voxels
NoMask == [masked |-> FALSE, cells |-> {}]
MaskedArray(S) == [masked |-> TRUE, cells |-> S]

-----------------------------------------------------------------------------
(* Arithmetic on the squares of non-negative reals.                        *)

RECURSIVE GCD(_, _)
GCD(a, b) == IF b = 0 THEN a ELSE GCD(b, a % b)

Norm(q) ==
    IF q[2] = 0 THEN (IF q[1] = 0 THEN <<0, 0>> ELSE <<1, 0>>)
    ELSE IF q[1] = 0 THEN <<0, 1>>
    ELSE LET g == GCD(q[1], q[2]) IN <<q[1] \div g, q[2] \div g>>

IsNaN(a) == a[1] = 0 /\ a[2] = 0
IsInf(a) == a[1] # 0 /\ a[2] = 0

\* a < b, a <= b, a = b as IEEE compares them (false when either is nan)
Less(a, b) == a[1] * b[2] < b[1] * a[2]
Leq(a, b)  == ~IsNaN(a) /\ ~IsNaN(b) /\ a[1] * b[2] <= b[1] * a[2]
Same(a, b) == ~IsNaN(a) /\ ~IsNaN(b) /\ a[1] * b[2] = b[1] * a[2]

\* a * b and a / b
Mul(a, b) == Norm(<<a[1] * b[1], a[2] * b[2]>>)
Div(a, b) == Norm(<<a[1] * b[2], a[2] * b[1]>>)
\* sqrt(a^2 + b^2)
Hypot(a, b) ==
    IF IsNaN(a) \/ IsNaN(b) THEN <<0, 0>>
    ELSE IF IsInf(a) \/ IsInf(b) THEN <<1, 0>>
    ELSE Norm(<<a[1] * b[2] + b[1] * a[2], a[2] * b[2]>>)

One == <<1, 1>>

-----------------------------------------------------------------------------
(* main.py: make_argument_parser, the options the thresholds depend on.    *)

QUARTILES == <<"min", "1st", "median", "3rd", "max">>

\* list.index
IndexOf(seq, x) == CHOOSE i \in 1..Len(seq) : seq[i] = x

\* choices= of each option; Null stands for "any string"
Choices ==
    [ calibration_quartile |-> {QUARTILES[i] : i \in 1..5},
      upper_threshold_ref  |-> {"pi-control-max"},
      lower_threshold_ref  |-> {"pi-control-3", "pi-control-max"} ]

\* default= of each option
Defaults ==
    [ calibration_quartile |-> "3rd",
      upper_threshold_ref  |-> "pi-control-max",
      lower_threshold_ref  |-> "pi-control-3",
      upper_threshold_frac |-> <<"1">>,
      lower_threshold_frac |-> <<"1">> ]

Options == DOMAIN Defaults

\* argparse: an option that is not given takes its default; a value outside
\* choices= is a usage error (the parser exits).
parse_ok(args) ==
    \A o \in DOMAIN Choices : args[o] = Null \/ args[o] \in Choices[o]

parse_args(args) ==
    [ o \in Options |->
        IF args[o] = Null THEN Defaults[o]
        ELSE IF o \in {"upper_threshold_frac", "lower_threshold_frac"}
             THEN <<args[o]>>            \* nargs=1: a one-element list
             ELSE args[o] ]

\* float() on the fraction strings the model uses (value f held as f^2)
float(s) ==
    CASE s = "0"   -> <<0, 1>>
      [] s = "0.5" -> <<1, 4>>
      [] s = "1"   -> <<1, 1>>
      [] s = "2"   -> <<4, 1>>

FracStrings == {"0.5", "1", "2"}

-----------------------------------------------------------------------------
(* calibration.py: the record calibrate_sobel returns, from the quartiles  *)
(* ft, fx, fm of the three ratios (sequences of five fractions).           *)

\* np.sqrt of a fraction: the value whose square is q
Sqrt(q) == Norm(q)
\* a plain fraction as a value (held by its square)
Plain(q) == Norm(<<q[1] * q[1], q[2] * q[2]>>)
\* ft / fx on plain fractions
QDiv(a, b) == <<a[1] * b[2], a[2] * b[1]>>

\* calibrate_sobel's record with the magnitude scale inverted after the
\* quartiles are taken instead of before
calibration_record_reciprocal(ft, fx, fm) ==
    [ time      |-> [i \in 1..5 |-> Sqrt(ft[i])],
      distance  |-> [i \in 1..5 |-> Sqrt(fx[i])],
      magnitude |-> [i \in 1..5 |-> Plain(<<fm[i][2], fm[i][1]>>)],
      gamma     |-> [i \in 1..5 |-> Sqrt(QDiv(ft[i], fx[i]))] ]

calibration_record(ft, fx, fm) ==
    [ time      |-> [i \in 1..5 |-> Sqrt(ft[i])],
      distance  |-> [i \in 1..5 |-> Sqrt(fx[i])],
      magnitude |-> [i \in 1..5 |-> Plain(fm[i])],
      gamma     |-> [i \in 1..5 |-> Sqrt(QDiv(ft[i], fx[i]))] ]

-----------------------------------------------------------------------------
(* workflow.py: threshold derivation.                                      *)

get_calibration_factor(cfg, cal) ==
    LET quartile == IndexOf(QUARTILES, cfg.calibration_quartile)
    IN  cal.gamma[quartile]

mag_quartiles(cfg, cal) ==
    LET gamma == get_calibration_factor(cfg, cal)
    IN  [i \in 1..5 |-> Hypot(Mul(cal.distance[i], gamma), cal.time[i])]

\* ref_values: mag_quartiles[3] and mag_quartiles[4] of the 0-based array
ref_values(cfg, cal) ==
    LET mag == mag_quartiles(cfg, cal)
    IN  [ r \in {"pi-control-3", "pi-control-max"} |->
            IF r = "pi-control-3" THEN mag[4] ELSE mag[5] ]

get_thresholds(cfg, cal) ==
    LET refs       == ref_values(cfg, cal)
        ref_lower  == refs[cfg.lower_threshold_ref]
        ref_upper  == refs[cfg.upper_threshold_ref]
        frac_lower == float(cfg.lower_threshold_frac[1])
        frac_upper == float(cfg.upper_threshold_frac[1])
    IN  <<Mul(ref_lower, frac_lower), Mul(ref_upper, frac_upper)>>

-----------------------------------------------------------------------------
(* The (time, lat, lon) lattice; a mask is the set of its voxels that are 1. *)

Lattice(shp) ==
    {<<t, y, x>> : t \in 0..(shp[1] - 1), y \in 0..(shp[2] - 1), x \in 0..(shp[3] - 1)}

Abs(n) == IF n < 0 THEN -n ELSE n

\* full 3D neighbourhood (generate_binary_structure(3, 3)): 26 neighbours
Adjacent26(v, w) ==
    v # w /\ \A i \in 1..3 : Abs(v[i] - w[i]) <= 1

\* mask.transpose([2, 1, 0]): the voxel at [t, y, x] moves to [x, y, t]
Transpose3(mask) == {<<v[3], v[2], v[1]>> : v \in mask}

\* sobel_data.transpose([3, 2, 1, 0]): new[x, y, t][c] = old[c][t, y, x]
Transpose4(shp, sd) ==
    [w \in Transpose3(Lattice(shp)) |-> [c \in 1..4 |-> sd[c][<<w[3], w[2], w[1]>>]]]

-----------------------------------------------------------------------------
(* hyper_canny.cp_double_threshold, the compiled hysteresis kernel: seeds   *)
(* are the mask voxels whose last channel is below a, and the result grows  *)
(* over the mask voxels whose last channel is below b, through the full 3D  *)
(* neighbourhood, until nothing is added.                                   *)

RECURSIVE Grow(_, _)
Grow(S, weak) ==
    LET new == {v \in weak \ S : \E w \in S : Adjacent26(v, w)}
    IN  IF new = {} THEN S ELSE Grow(S \cup new, weak)

cp_double_threshold(data, mask, a, b) ==
    LET strong == {w \in mask : Less(data[w][4], a)}
        weak   == {w \in mask : Less(data[w][4], b)}
    IN  Grow(strong, weak)

-----------------------------------------------------------------------------
(* workflow.py: hysteresis_thresholding, apply_mask_to_edges, max_signal.   *)

hysteresis_thresholding_swapped(cfg, shp, sd, mask, cal) ==
    LET thr == get_thresholds(cfg, cal)
        new_mask == cp_double_threshold(
            Transpose4(shp, sd), Transpose3(mask),
            Div(One, thr[1]), Div(One, thr[2]))
    IN  Transpose3(new_mask)

hysteresis_thresholding_not_inverted(cfg, shp, sd, mask, cal) ==
    LET thr == get_thresholds(cfg, cal)
        new_mask == cp_double_threshold(
            Transpose4(shp, sd), Transpose3(mask), thr[2], thr[1])
    IN  Transpose3(new_mask)

hysteresis_thresholding(cfg, shp, sd, mask, cal) ==
    LET thr   == get_thresholds(cfg, cal)
        lower == thr[1]
        upper == thr[2]
        new_mask == cp_double_threshold(
            Transpose4(shp, sd), Transpose3(mask),
            Div(One, upper), Div(One, lower))
    IN  Transpose3(new_mask)

\* edges[:time_margin] = 0; edges[-time_margin:] = 0; return edges * ~mask
\* (Python slices: [:m] is the first m steps, or all but the last -m when m
\* is negative; [-m:] is the last m steps, and every step when m = 0)
HeadSlice(T, m) == IF m >= 0 THEN {t \in 0..(T - 1) : t < m}
                   ELSE {t \in 0..(T - 1) : t < T + m}
TailSlice(T, m) == IF m > 0 THEN {t \in 0..(T - 1) : t >= T - m}
                   ELSE {t \in 0..(T - 1) : t >= -m}

apply_mask_to_edges(shp, edg, mask, time_margin) ==
    LET e1 == {v \in edg : v[1] \notin HeadSlice(shp[1], time_margin)}
        e2 == {v \in e1 : v[1] \notin TailSlice(shp[1], time_margin)}
    IN  e2 \ mask

\* the smallest of a non-empty set of values
MinOf(S) == CHOOSE m \in S : \A s \in S : Leq(m, s)

\* the largest of a non-empty set of values
MaxOf(S) == CHOOSE m \in S : \A s \in S : Leq(s, m)

max_signal_of_max(shp, sd, dmask) ==
    LET cells == IF dmask.masked THEN Lattice(shp) \ dmask.cells ELSE Lattice(shp)
    IN  Div(One, MaxOf({sd[4][v] : v \in cells}))

\* 1 / sobel_data[-1].min(); a masked array's min() skips the masked cells
max_signal(shp, sd, dmask) ==
    LET cells == IF dmask.masked THEN Lattice(shp) \ dmask.cells ELSE Lattice(shp)
    IN  Div(One, MinOf({sd[4][v] : v \in cells}))

-----------------------------------------------------------------------------
(* Inputs of the bounded checks.                                            *)

\* largest numerator of a calibration quartile in the threshold checks
MaxQ == 2
\* time steps of the lattice in the hysteresis checks (lat x lon is 2 x 2)
NT == 3
\* most candidate voxels in the hysteresis checks
MaxCand == 3

Frac(n) == <<n, 1>>

NonDecreasing5(S) ==
    {s \in [1..5 -> S] : \A i \in 1..4 : s[i] <= s[i + 1]}

QuartileSeqs == {[i \in 1..5 |-> Frac(s[i])] : s \in NonDecreasing5(0..MaxQ)}

UnitQuartiles == [i \in 1..5 |-> Frac(1)]

ThrCalibrations ==
    {calibration_record(ft, fx, UnitQuartiles) : ft \in QuartileSeqs, fx \in QuartileSeqs}

\* what the command line may give for each option (Null: option not given)
ArgvPool ==
    [ calibration_quartile : {Null, "median", "mean"},
      upper_threshold_ref  : {Null, "pi-control-max", "pi-control-3"},
      lower_threshold_ref  : {Null, "pi-control-max", "rcp85"},
      upper_threshold_frac : {Null, "2"},
      lower_threshold_frac : {Null, "0.5"} ]

\* the subsets of S with at most k elements
RECURSIVE SmallSubsets(_, _)
SmallSubsets(S, k) ==
    IF k = 0 THEN {{}}
    ELSE LET P == SmallSubsets(S, k - 1)
         IN  P \cup {A \cup {x} : A \in P, x \in S}

vars == <<pc, argv, config, calibration, thresholds, shape, data_mask,
          sobel_data, sobel_maxima, edges, error, control, target, call, result, output>>

-----------------------------------------------------------------------------
(* SpecThr: the command line is parsed and the thresholds are derived.      *)

ThrInit ==
    /\ pc = "start"
    /\ argv \in ArgvPool
    /\ calibration \in ThrCalibrations
    /\ config = Null /\ thresholds = Null
    /\ shape = Null /\ data_mask = Null /\ sobel_data = Null
    /\ sobel_maxima = Null /\ edges = Null /\ error = Null
    /\ control = Null /\ target = Null /\ call = Null /\ result = Null
    /\ control = Null /\ target = Null /\ call = Null /\ result = Null
    /\ output = {}

\* parser.parse_args(): a usage error ends the program
ParseArgs ==
    /\ pc = "start"
    /\ IF parse_ok(argv)
       THEN config' = parse_args(argv) /\ pc' = "parsed"
       ELSE config' = config /\ pc' = "usage_error"
    /\ UNCHANGED <<output, control, target, call, result, argv, calibration, thresholds, shape, data_mask,
                   sobel_data, sobel_maxima, edges, error>>

GetThresholds ==
    /\ pc = "parsed"
    /\ thresholds' = get_thresholds(config, calibration)
    /\ pc' = "thresholds"
    /\ UNCHANGED <<output, control, target, call, result, argv, config, calibration, shape, data_mask,
                   sobel_data, sobel_maxima, edges, error>>

ThrNext == ParseArgs \/ GetThresholds

SpecThr == ThrInit /\ [][ThrNext]_vars

\* C6 (as claimed): whatever pair of references the command line names
\* for the lower and the upper threshold, the configuration is accepted and
\* the thresholds are (mag[ref_lower] * frac_lower, mag[ref_upper] * frac_upper).
C6_FourCombinationsAccepted ==
    LET req(o)  == IF argv[o] = Null THEN Defaults[o] ELSE argv[o]
        Refs    == {"pi-control-3", "pi-control-max"}
        mag     == mag_quartiles(config, calibration)
        ref(r)  == IF r = "pi-control-3" THEN mag[4] ELSE mag[5]
    IN  ( /\ pc # "start"
          /\ req("lower_threshold_ref") \in Refs
          /\ req("upper_threshold_ref") \in Refs
          /\ req("calibration_quartile") \in Choices.calibration_quartile )
        => /\ pc # "usage_error"
           /\ pc = "thresholds" =>
                thresholds =
                  << Mul(ref(req("lower_threshold_ref")), float(config.lower_threshold_frac[1])),
                     Mul(ref(req("upper_threshold_ref")), float(config.upper_threshold_frac[1])) >>

-----------------------------------------------------------------------------
(* SpecHyst: hysteresis_thresholding on a gradient field and a candidate    *)
(* mask over the NT x 2 x 2 lattice.                                        *)

Zero == <<0, 1>>

\* values of the normalisation channel: 1/sqrt(2) and sqrt(2)
Levels == {<<1, 2>>, <<2, 1>>}

\* time^2 = (0, 0, 1/8, 1/8, 7/8), distance^2 = 1: with the 3rd quartile
\* mag[3]^2 = 1/4 and mag[4]^2 = 1
HystCalibration ==
    calibration_record(
        <<Frac(0), Frac(0), <<1, 8>>, <<1, 8>>, <<7, 8>>>>,
        UnitQuartiles, UnitQuartiles)

HystConfigs ==
    { parse_args(a) : a \in
        [ calibration_quartile : {Null},
          upper_threshold_ref  : {Null},
          lower_threshold_ref  : {Null, "pi-control-max"},
          upper_threshold_frac : {Null, "0.5", "2"},
          lower_threshold_frac : {Null} ] }

\* a gradient field whose normalisation channel is lv on the voxels of its
\* domain and bg elsewhere (the derivative channels play no part here)
GradientField(shp, lv, bg) ==
    [c \in 1..4 |->
        [v \in Lattice(shp) |->
            IF c = 4 THEN (IF v \in DOMAIN lv THEN lv[v] ELSE bg) ELSE Zero]]

HystInit ==
    /\ pc = "maxima"
    /\ shape = <<NT, 2, 2>>
    /\ sobel_maxima \in SmallSubsets(Lattice(shape), MaxCand)
    /\ \E lv \in [sobel_maxima -> Levels] :
          sobel_data = GradientField(shape, lv, <<1, 2>>)
    /\ config \in HystConfigs
    /\ calibration = HystCalibration
    /\ data_mask = NoMask
    /\ argv = Null /\ thresholds = Null /\ edges = {} /\ error = Null
    /\ control = Null /\ target = Null /\ call = Null /\ result = Null
    /\ output = {}

Hysteresis ==
    /\ pc = "maxima"
    /\ edges' = hysteresis_thresholding(config, shape, sobel_data, sobel_maxima, calibration)
    /\ pc' = "edges"
    /\ UNCHANGED <<output, control, target, call, result, argv, config, calibration, thresholds, shape, data_mask,
                   sobel_data, sobel_maxima, error>>

HystNext == Hysteresis

SpecHyst == HystInit /\ [][HystNext]_vars

\* the magnitude of a voxel: 1 / channel 3
Magnitude(v) == Div(One, sobel_data[4][v])
LowerThr == get_thresholds(config, calibration)[1]
UpperThr == get_thresholds(config, calibration)[2]
StrongVoxels ==
    LET upper == UpperThr IN {v \in sobel_maxima : Less(upper, Magnitude(v))}
WeakVoxels ==
    LET lower == LowerThr IN {v \in sobel_maxima : Less(lower, Magnitude(v))}

\* chains of n voxels of S, each 26-adjacent to the next
RECURSIVE ChainsOfLen(_, _)
ChainsOfLen(S, n) ==
    IF n = 1 THEN {<<v>> : v \in S}
    ELSE {e \in {Append(c, v) : c \in ChainsOfLen(S, n - 1), v \in S} :
            Adjacent26(e[n - 1], e[n])}

\* chains of voxels of S, each 26-adjacent to the next
Chains(S) == UNION {ChainsOfLen(S, n) : n \in 1..Cardinality(S)}

\* the voxels joined to a strong voxel by a chain of weak voxels: the last
\* voxels of the chains of weak voxels that start at a strong voxel
JoinedByWeak ==
    LET strong == StrongVoxels
        weak   == WeakVoxels
    IN  {c[Len(c)] : c \in {d \in Chains(weak) : d[1] \in strong}}

\* the last voxels of the chains of weak voxels that start at, or next to, a
\* strong voxel
JoinedToStrong ==
    LET strong == StrongVoxels
        weak   == WeakVoxels
        starts == {v \in weak : \E s \in strong : s = v \/ Adjacent26(s, v)}
    IN  {c[Len(c)] : c \in {d \in Chains(weak) : d[1] \in starts}}

\* C1 (as claimed): the EdgeMask is exactly the set of weak voxels joined to
\* a strong voxel by a chain of 26-adjacent weak voxels, and holds every
\* strong voxel.
C1_ExactlyWeakJoined ==
    pc = "edges" =>
        /\ edges = JoinedByWeak
        /\ StrongVoxels \subseteq edges

\* C1 (amended): the EdgeMask is exactly the strong voxels together with the
\* weak voxels joined to a strong voxel by a chain of 26-adjacent weak
\* voxels; nothing outside the candidate mask is in it.
C1_StrongAndWeakJoined ==
    pc = "edges" =>
        /\ edges = StrongVoxels \cup JoinedToStrong
        /\ edges \subseteq sobel_maxima

\* C1 witness: growth added a weak voxel that is not strong and is not next
\* to any strong voxel (a chain of two weak voxels joins it).
C1_Witness ==
    /\ pc = "edges"
    /\ \E v \in edges \ StrongVoxels :
          \A s \in StrongVoxels : ~Adjacent26(s, v)

\* C2: with lower == upper the EdgeMask is simple thresholding of the
\* candidates: a voxel is in it iff it is a candidate and its magnitude
\* exceeds the threshold.
C2_EqualThresholds ==
    (pc = "edges" /\ Same(LowerThr, UpperThr)) =>
        LET upper == UpperThr
        IN  edges = {v \in Lattice(shape) :
                        v \in sobel_maxima /\ Less(upper, Magnitude(v))}

\* C2 witness: lower == upper, the mask is not empty and a candidate below
\* the threshold lies next to an edge voxel without having been added.
C2_Witness ==
    /\ pc = "edges"
    /\ Same(LowerThr, UpperThr)
    /\ \E v \in sobel_maxima \ edges : \E e \in edges : Adjacent26(v, e)

\* the configuration with another fraction for the upper threshold
WithUpperFrac(f) == [config EXCEPT !.upper_threshold_frac = <<f>>]

\* C3: for the same gradient field, candidates and lower threshold, an upper
\* threshold that is at least the present one gives an EdgeMask with no more
\* voxels.
C3_RaisingUpper ==
    pc = "edges" =>
        \A f \in FracStrings :
            Leq(UpperThr, get_thresholds(WithUpperFrac(f), calibration)[2]) =>
                Cardinality(hysteresis_thresholding(
                    WithUpperFrac(f), shape, sobel_data, sobel_maxima, calibration))
                  <= Cardinality(edges)

\* C3 witness: a strictly larger upper threshold gives a strictly smaller,
\* non-empty EdgeMask.
C3_Witness ==
    /\ pc = "edges"
    /\ \E f \in FracStrings :
          LET other == hysteresis_thresholding(
                  WithUpperFrac(f), shape, sobel_data, sobel_maxima, calibration)
          IN  /\ Less(UpperThr, get_thresholds(WithUpperFrac(f), calibration)[2])
              /\ other # {}
              /\ Cardinality(other) < Cardinality(edges)

-----------------------------------------------------------------------------
(* SpecCanny: compute_canny_edges on a target of LongT time steps (one      *)
(* column), from the gradient field to the returned EdgeMask.               *)

\* time steps of the target in the edge detection checks
LongT == 21
\* most voxels non-maximum suppression keeps in the edge detection checks
MaxMaxima == 1
\* the time margin compute_canny_edges passes to apply_mask_to_edges
TimeMargin == 10

CannyConfigs ==
    { parse_args(a) : a \in
        [ calibration_quartile : {Null},
          upper_threshold_ref  : {Null},
          lower_threshold_ref  : {Null},
          upper_threshold_frac : {Null, "2"},
          lower_threshold_frac : {Null} ] }

\* gradient fields with at most one voxel of large magnitude
CannyFields(shp) ==
    {GradientField(shp, <<>>, bg) : bg \in Levels} \cup
    {GradientField(shp, [v \in {p} |-> <<1, 2>>], <<2, 1>>) : p \in Lattice(shp)}

CannyInit ==
    /\ pc = "sobel"
    /\ shape = <<LongT, 1, 1>>
    /\ data_mask \in {NoMask} \cup {MaskedArray(S) : S \in SmallSubsets(Lattice(shape), 1)}
    /\ sobel_data \in CannyFields(shape)
    /\ config \in CannyConfigs
    /\ calibration = HystCalibration
    /\ argv = Null /\ thresholds = Null /\ sobel_maxima = {}
    /\ edges = {} /\ error = Null
    /\ control = Null /\ target = Null /\ call = Null /\ result = Null
    /\ output = {}

\* lines 246-257: the maximum signal is compared with the upper threshold
CheckSignal ==
    /\ pc = "sobel"
    /\ LET max_signal_value == max_signal(shape, sobel_data, data_mask)
           upper == get_thresholds(config, calibration)[2]
       IN  IF Less(max_signal_value, upper)
           THEN error' = "ValueError" /\ pc' = "raised"
           ELSE error' = error /\ pc' = "checked"
    /\ UNCHANGED <<output, control, target, call, result, argv, config, calibration, thresholds, shape, data_mask,
                   sobel_data, sobel_maxima, edges>>

\* lines 259-261: the thinning kernel keeps some voxels as candidates
MaximumSuppression ==
    /\ pc = "checked"
    /\ sobel_maxima' \in SmallSubsets(Lattice(shape), MaxMaxima)
    /\ pc' = "thinned"
    /\ UNCHANGED <<output, control, target, call, result, argv, config, calibration, thresholds, shape, data_mask,
                   sobel_data, edges, error>>

\* lines 263-264: margins and masked cells are cleared for a masked array
MaskEdges ==
    /\ pc = "thinned"
    /\ sobel_maxima' =
          IF data_mask.masked
          THEN apply_mask_to_edges(shape, sobel_maxima, data_mask.cells, TimeMargin)
          ELSE sobel_maxima
    /\ pc' = "maxima"
    /\ UNCHANGED <<output, control, target, call, result, argv, config, calibration, thresholds, shape, data_mask,
                   sobel_data, edges, error>>

CannyNext == CheckSignal \/ MaximumSuppression \/ MaskEdges \/ Hysteresis

SpecCanny == CannyInit /\ [][CannyNext]_vars

\* the cells a statistic of the target sees
ObservedCells == Lattice(shape) \ data_mask.cells

\* C4 (as claimed): the returned EdgeMask is 0 on the first and last
\* TimeMargin time steps and on every masked cell, for a target with or
\* without a validity mask.
C4_MarginsAndMaskedCellsZero ==
    pc = "edges" =>
        \A v \in edges :
            /\ v[1] >= TimeMargin
            /\ v[1] < shape[1] - TimeMargin
            /\ v \in ObservedCells

\* C5: the call raises exactly when the maximum observed signal is below the
\* upper threshold, and then neither thinning nor hysteresis has run and no
\* EdgeMask exists; otherwise it goes on without an error.
C5_AbortBelowUpper ==
    LET below == \A v \in ObservedCells : Less(Magnitude(v), UpperThr)
    IN  /\ pc = "raised" =>
              below /\ error = "ValueError" /\ sobel_maxima = {} /\ edges = {}
        /\ pc \in {"checked", "thinned", "maxima", "edges"} =>
              ~below /\ error = Null

\* C5 witness: the call has raised on a field whose largest magnitude lies
\* on a masked cell.
C5_Witness ==
    /\ pc = "raised"
    /\ \E v \in data_mask.cells : ~Less(Magnitude(v), UpperThr)

-----------------------------------------------------------------------------
(* calibration.py: calibrate_sobel on a control run.                       *)
(* hypercc.stats.weighted_quartiles is not part of the sources; it is      *)
(* modelled from its description: sort the samples, form the cumulative    *)
(* weight fraction, interpolate linearly at 0, 1/4, 1/2, 3/4 and 1.        *)

\* plain fractions <<n, d>> with d > 0
QAdd(a, b) == Norm(<<a[1] * b[2] + b[1] * a[2], a[2] * b[2]>>)
QSub(a, b) == Norm(<<a[1] * b[2] - b[1] * a[2], a[2] * b[2]>>)
QScale(k, m, a) == Norm(<<k * a[1], m * a[2]>>)
QLeq(a, b) == a[1] * b[2] <= b[1] * a[2]

\* C order of a set of voxels (flatten / compressed)
RasterLeq(u, v) ==
    \/ u[1] < v[1]
    \/ u[1] = v[1] /\ u[2] < v[2]
    \/ u[1] = v[1] /\ u[2] = v[2] /\ u[3] <= v[3]

RECURSIVE Flatten(_)
Flatten(S) ==
    IF S = {} THEN <<>>
    ELSE LET first == CHOOSE v \in S : \A w \in S : RasterLeq(v, w)
         IN  <<first>> \o Flatten(S \ {first})

\* samples are pairs <<value, weight>>
RECURSIVE Insert(_, _)
Insert(p, s) ==
    IF s = <<>> THEN <<p>>
    ELSE IF QLeq(p[1], Head(s)[1]) THEN <<p>> \o s
    ELSE <<Head(s)>> \o Insert(p, Tail(s))

RECURSIVE SortSamples(_)
SortSamples(s) ==
    IF s = <<>> THEN <<>> ELSE Insert(Head(s), SortSamples(Tail(s)))

RECURSIVE CumWeight(_, _)
CumWeight(s, i) == IF i = 0 THEN 0 ELSE s[i][2] + CumWeight(s, i - 1)

\* the sample value at cumulative fraction k/4
interp(k, s, cum) ==
    LET n == Len(s)
        W == cum[n]
    IN  IF k * W <= 4 * cum[1] THEN s[1][1]
        ELSE IF k * W >= 4 * cum[n] THEN s[n][1]
        ELSE LET i == CHOOSE j \in 1..(n - 1) :
                          4 * cum[j] <= k * W /\ k * W < 4 * cum[j + 1]
             IN  QAdd(s[i][1],
                      QScale(k * W - 4 * cum[i], 4 * (cum[i + 1] - cum[i]),
                             QSub(s[i + 1][1], s[i][1])))

weighted_quartiles(values, weights) ==
    LET s   == SortSamples([i \in 1..Len(values) |-> <<values[i], weights[i]>>])
        cum == [i \in 1..Len(s) |-> CumWeight(s, i)]
    IN  [k \in 1..5 |-> interp(k - 1, s, cum)]

\* the cells whose samples enter the quartiles
Compressed(shp, mask) ==
    IF mask.masked THEN Lattice(shp) \ mask.cells ELSE Lattice(shp)

calibrate_sobel(box, mask, sbc) ==
    LET order   == Flatten(Compressed(box.shape, mask))
        n       == Len(order)
        var_t   == [i \in 1..n |-> Norm(<<sbc[order[i]][1] * sbc[order[i]][1],
                                          sbc[order[i]][4] * sbc[order[i]][4]>>)]
        var_x   == [i \in 1..n |-> Norm(<<sbc[order[i]][2] * sbc[order[i]][2]
                                            + sbc[order[i]][3] * sbc[order[i]][3],
                                          sbc[order[i]][4] * sbc[order[i]][4]>>)]
        var_m   == [i \in 1..n |-> Norm(<<1, sbc[order[i]][4]>>)]
        weights == [i \in 1..n |->
                       box.relative_grid_area[<<order[i][2], order[i][3]>>]]
    IN  calibration_record(weighted_quartiles(var_t, weights),
                           weighted_quartiles(var_x, weights),
                           weighted_quartiles(var_m, weights))

\* ---- control runs ----
CalT == 2
MaxArea == 2

\* gradient vectors <<d/dt, d/dlat, d/dlon, norm>> a control voxel can carry;
\* the norm is positive and is the length of the vector
SobelPool == {<<0, 2, 0, 2>>, <<3, 4, 0, 5>>, <<4, 0, 3, 5>>}

ControlShape == <<CalT, 1, 2>>

ControlMasks ==
    {NoMask, MaskedArray(Lattice(ControlShape))}
        \cup {MaskedArray(S) : S \in SmallSubsets(Lattice(ControlShape), 1)}

ControlRuns ==
    [ box  : [ shape : {ControlShape},
               relative_grid_area : [{<<0, 0>>, <<0, 1>>} -> 1..MaxArea] ],
      mask : ControlMasks,
      sbc  : [Lattice(ControlShape) -> SobelPool] ]

CalInit ==
    /\ pc = "control"
    /\ control \in ControlRuns
    /\ argv = Null /\ config = Null /\ calibration = Null /\ thresholds = Null
    /\ shape = Null /\ data_mask = Null /\ sobel_data = Null
    /\ sobel_maxima = {} /\ edges = {} /\ error = Null
    /\ target = Null /\ call = Null /\ result = Null
    /\ output = {}

\* calibrate_sobel; the quartile estimator rejects an empty sample
Calibrate ==
    /\ pc = "control"
    /\ IF Compressed(control.box.shape, control.mask) = {}
       THEN /\ pc' = "raised"
            /\ error' = "EmptyInputError"
            /\ UNCHANGED calibration
       ELSE /\ pc' = "calibrated"
            /\ calibration' = calibrate_sobel(control.box, control.mask, control.sbc)
            /\ UNCHANGED error
    /\ UNCHANGED <<output, control, target, call, result, argv, config, thresholds,
                   shape, data_mask, sobel_data, sobel_maxima, edges>>

CalNext == Calibrate

SpecCal == CalInit /\ [][CalNext]_vars

NonDecreasing(seq) == \A i \in 1..4 : Leq(seq[i], seq[i + 1])

-----------------------------------------------------------------------------
(* workflow.py: label_regions.                                             *)

\* the 26-connected component of mask that holds the voxels S
RECURSIVE Flood(_, _)
Flood(S, mask) ==
    LET new == {v \in mask \ S : \E w \in S : Adjacent26(v, w)}
    IN  IF new = {} THEN S ELSE Flood(S \cup new, mask)

\* ndimage.label with the full 3x3x3 structure: the components, numbered in
\* the order a C-order scan meets them
RECURSIVE ndimage_label(_)
ndimage_label(mask) ==
    IF mask = {} THEN <<>>
    ELSE LET first == CHOOSE v \in mask : \A w \in mask : RasterLeq(v, w)
             comp  == Flood({first}, mask)
         IN  <<comp>> \o ndimage_label(mask \ comp)

\* label_regions with the size test turned round
label_regions_smaller(shp, mask, min_size) ==
    LET comps      == ndimage_label(mask)
        n_features == Len(comps)
        labels     == [v \in Lattice(shp) |->
                          IF v \in mask
                          THEN CHOOSE x \in 1..n_features : v \in comps[x]
                          ELSE 0]
        big_enough == SelectSeq([x \in 1..n_features |-> x],
                                LAMBDA x : Cardinality(comps[x]) < min_size)
        kept       == {big_enough[i] : i \in 1..Len(big_enough)}
    IN  [ n_features |-> n_features,
          regions    |-> [v \in Lattice(shp) |->
                             IF labels[v] \in kept THEN labels[v] ELSE 0],
          labels     |-> big_enough ]

label_regions(shp, mask, min_size) ==
    LET comps      == ndimage_label(mask)
        n_features == Len(comps)
        labels     == [v \in Lattice(shp) |->
                          IF v \in mask
                          THEN CHOOSE x \in 1..n_features : v \in comps[x]
                          ELSE 0]
        big_enough == SelectSeq([x \in 1..n_features |-> x],
                                LAMBDA x : Cardinality(comps[x]) > min_size)
        kept       == {big_enough[i] : i \in 1..Len(big_enough)}
    IN  [ n_features |-> n_features,
          regions    |-> [v \in Lattice(shp) |->
                             IF labels[v] \in kept THEN labels[v] ELSE 0],
          labels     |-> big_enough ]

-----------------------------------------------------------------------------
(* SpecLabel: an edge mask is labelled.                                     *)

MaxMinSize == 2

LabelInit ==
    /\ pc = "edges"
    /\ shape = <<NT, 2, 2>>
    /\ edges \in SmallSubsets(Lattice(shape), MaxCand)
    /\ call \in [min_size : 0..MaxMinSize]
    /\ argv = Null /\ config = Null /\ calibration = Null /\ thresholds = Null
    /\ data_mask = Null /\ sobel_data = Null /\ sobel_maxima = {}
    /\ error = Null /\ control = Null /\ target = Null /\ result = Null
    /\ output = {}

LabelRegions ==
    /\ pc = "edges"
    /\ pc' = "labelled"
    /\ result' = label_regions(shape, edges, call.min_size)
    /\ UNCHANGED <<output, control, target, call, argv, config, calibration, thresholds,
                   shape, data_mask, sobel_data, sobel_maxima, edges, error>>

LabelNext == LabelRegions

SpecLabel == LabelInit /\ [][LabelNext]_vars

\* two voxels of the edge mask joined by a chain of 26-adjacent mask voxels
Connected(u, v) ==
    \E c \in Chains(edges) : c[1] = u /\ c[Len(c)] = v

\* the 26-connected components of the edge mask
Components == {{w \in edges : Connected(v, w)} : v \in edges}

NonZero(regions) == Cardinality({v \in DOMAIN regions : regions[v] # 0})

\* C8 (as claimed): the component count label_regions returns equals the
\* number of 26-connected components of the edge mask whose voxel count
\* exceeds min_size; every voxel of a component that does not exceed
\* min_size is 0 in the label field, and the voxels of a surviving component
\* keep one common non-zero label.
C8_CountOfSurvivors ==
    pc = "labelled" =>
        LET comps == Components
            big   == {c \in comps : Cardinality(c) > call.min_size}
        IN  /\ result.n_features = Cardinality(big)
            /\ \A c \in comps \ big : \A v \in c : result.regions[v] = 0
            /\ \A c \in big : \A u, v \in c :
                   result.regions[u] # 0 /\ result.regions[u] = result.regions[v]

\* C9: for a fixed edge mask, a larger min_size leaves at most as many
\* non-zero voxels in the label field; with min_size = 0 every mask voxel
\* survives, nothing else is labelled, and two mask voxels carry the same
\* label exactly when they are 26-connected within the mask.
C9_MonotoneInMinSize ==
    pc = "labelled" =>
        /\ \A m \in call.min_size..(MaxMinSize + 1) :
               NonZero(label_regions(shape, edges, m).regions)
                   <= NonZero(result.regions)
        /\ call.min_size = 0 =>
               /\ \A v \in Lattice(shape) : (result.regions[v] # 0) <=> (v \in edges)
               /\ \A u, v \in edges :
                      (result.regions[u] = result.regions[v]) <=> Connected(u, v)

\* a mask of two components of different size labelled with min_size = 0,
\* of which a larger min_size removes one and keeps the other
C9_Witness ==
    /\ pc = "labelled"
    /\ call.min_size = 0
    /\ Cardinality(Components) = 2
    /\ \E m \in 1..MaxMinSize :
           LET n == NonZero(label_regions(shape, edges, m).regions)
           IN  0 < n /\ n < NonZero(result.regions)

-----------------------------------------------------------------------------
(* workflow.py: compute_measure15j.                                        *)
(* A score is held by what it was computed from: kind "zero" (0.0), kind   *)
(* "sentinel" (9e99), kind "nan", or kind "ratio", the value               *)
(* diff / ((sqrt(v1) + sqrt(v2)) / 2) of a difference of intercepts and    *)
(* two variances, all three fractions.                                     *)

Score(kind, diff, v1, v2) == [kind |-> kind, diff |-> diff, v1 |-> v1, v2 |-> v2]
ZeroScore  == Score("zero", <<0, 1>>, <<0, 1>>, <<0, 1>>)
Sentinel   == Score("sentinel", <<0, 1>>, <<0, 1>>, <<0, 1>>)
NanScore   == Score("nan", <<0, 1>>, <<0, 1>>, <<0, 1>>)
RaiseScore == Score("raise", <<0, 1>>, <<0, 1>>, <<0, 1>>)

\* a Python slice s[a:b] of a sequence, 0 <= a and 0 <= b
Slice(s, a, b) == SubSeq(s, a + 1, IF b < Len(s) THEN b ELSE Len(s))

\* the time indices a, ..., b - 1
IndexRange(a, b) == IF b <= a THEN <<>> ELSE [i \in 1..(b - a) |-> a + i - 1]

RECURSIVE SumTo(_, _)
SumTo(s, i) == IF i = 0 THEN 0 ELSE s[i] + SumTo(s, i - 1)
Sum(s) == SumTo(s, Len(s))

MinInt(S) == CHOOSE m \in S : \A n \in S : m <= n
MaxInt(S) == CHOOSE m \in S : \A n \in S : n <= m

QAbs(q) == <<Abs(q[1]), q[2]>>

\* the intercept of scipy.stats.linregress(x, y). Empty input or inputs of
\* different length raise ValueError; when all x are identical the result
\* depends on the scipy release: ValueError (strict) or nan.
linregress(x, y, strict) ==
    IF Len(x) = 0 \/ Len(y) = 0 \/ Len(x) # Len(y)
    THEN [kind |-> "raise", value |-> <<0, 1>>]
    ELSE LET n   == Len(x)
             Sx  == Sum(x)
             Sy  == Sum(y)
             Sxx == Sum([i \in 1..n |-> x[i] * x[i]])
             Sxy == Sum([i \in 1..n |-> x[i] * y[i]])
             D   == n * Sxx - Sx * Sx
         IN  IF D = 0
             THEN [kind |-> IF strict THEN "raise" ELSE "nan", value |-> <<0, 1>>]
             ELSE [kind |-> "value", value |-> Norm(<<Sy * Sxx - Sx * Sxy, D>>)]

\* np.nanstd squared, of a non-empty sample without nan
Variance(y) ==
    LET n == Len(y)
    IN  Norm(<<n * Sum([i \in 1..n |-> y[i] * y[i]]) - Sum(y) * Sum(y), n * n>>)

\* lines 315-351: the chunks c1, c2 of time indices before and after the
\* voxel v are cut to chunk_max_length and trimmed at other edges of the
\* column; the data and the years of a chunk are trimmed apart
trim_chunks(mask, v, c1, c2, cutoff_length, chunk_max_length) ==
    LET chunk1_start == IF Len(c1) > chunk_max_length
                        THEN Len(c1) - chunk_max_length ELSE 0
        chunk2_end   == IF Len(c2) > chunk_max_length
                        THEN chunk_max_length ELSE Len(c2)
        chunk1_short == Slice(c1, chunk1_start, Len(c1))
        chunk2_short == Slice(c2, 0, chunk2_end)
        edges1 == {i \in 1..Len(chunk1_short) : <<chunk1_short[i], v[2], v[3]>> \in mask}
        edges2 == {i \in 1..Len(chunk2_short) : <<chunk2_short[i], v[2], v[3]>> \in mask}
    IN  [ chunk1_short |-> chunk1_short,
          chunk2_short |-> chunk2_short,
          chunk1_data_short |->
            IF edges1 = {} THEN chunk1_short
            ELSE IF MaxInt(edges1) - 1 + cutoff_length >= Len(chunk1_short) THEN <<>>
            ELSE Slice(chunk1_short, MaxInt(edges1) - 1 + cutoff_length, Len(chunk1_short)),
          chunk1_years_short |->
            IF edges1 = {} THEN chunk1_short
            ELSE IF MaxInt(edges1) - 1 + cutoff_length >= Len(chunk1_short) THEN chunk1_short
            ELSE Slice(chunk1_short, MaxInt(edges1) - 1 + cutoff_length, Len(chunk1_short)),
          chunk2_data_short |->
            IF edges2 = {} THEN chunk2_short
            ELSE IF MinInt(edges2) - 1 - cutoff_length < 0 THEN <<>>
            ELSE Slice(chunk2_short, 0, MinInt(edges2) - 1 - cutoff_length),
          chunk2_years_short |->
            IF edges2 = {} THEN chunk2_short
            ELSE IF MinInt(edges2) - 1 - cutoff_length < 0 THEN chunk2_short
            ELSE Slice(chunk2_short, 0, MinInt(edges2) - 1 - cutoff_length) ]

\* lines 315-375: the chunks are trimmed, checked for length and scored
score_of_chunks(mask, years, data, v, c1, c2, cutoff_length, chunk_max_length, chunk_min_length, strict) ==
    LET trimmed == trim_chunks(mask, v, c1, c2, cutoff_length, chunk_max_length)
        chunk1_data_short  == trimmed.chunk1_data_short
        chunk1_years_short == trimmed.chunk1_years_short
        chunk2_data_short  == trimmed.chunk2_data_short
        chunk2_years_short == trimmed.chunk2_years_short
        N1 == Len(chunk1_data_short)
        N2 == Len(chunk2_data_short)
    IN  IF N1 < chunk_min_length \/ N2 < chunk_min_length THEN ZeroScore
        ELSE LET x1 == [i \in 1..Len(chunk1_years_short) |->
                           years[chunk1_years_short[i]] - years[v[1]]]
                 x2 == [i \in 1..Len(chunk2_years_short) |->
                           years[chunk2_years_short[i]] - years[v[1]]]
                 y1 == [i \in 1..N1 |-> data[<<chunk1_data_short[i], v[2], v[3]>>]]
                 y2 == [i \in 1..N2 |-> data[<<chunk2_data_short[i], v[2], v[3]>>]]
                 r1 == linregress(x1, y1, strict)
                 r2 == linregress(x2, y2, strict)
             IN  IF r1.kind = "raise" \/ r2.kind = "raise" THEN RaiseScore
                 ELSE IF Variance(y1)[1] = 0 /\ Variance(y2)[1] = 0
                 THEN (IF Sum(y1) * N2 = Sum(y2) * N1 THEN ZeroScore ELSE Sentinel)
                 ELSE IF r1.kind = "nan" \/ r2.kind = "nan" THEN NanScore
                 ELSE Score("ratio", QAbs(QSub(r1.value, r2.value)),
                            Variance(y1), Variance(y2))

\* lines 298-375 with the first chunk reaching one sample further
voxel_score_inclusive(T, mask, years, data, v, cutoff_length, chunk_max_length, chunk_min_length, strict) ==
    LET index == v[1]
    IN  IF index - cutoff_length >= 0 /\ index + cutoff_length + 1 <= T
        THEN score_of_chunks(mask, years, data, v,
                             IndexRange(0, index - cutoff_length + 1),
                             IndexRange(index + cutoff_length + 1, T),
                             cutoff_length, chunk_max_length, chunk_min_length, strict)
        ELSE ZeroScore

\* lines 298-375: the score of the mask voxel v
voxel_score(T, mask, years, data, v, cutoff_length, chunk_max_length, chunk_min_length, strict) ==
    LET index == v[1]
    IN  IF index - cutoff_length >= 0 /\ index + cutoff_length + 1 <= T
        THEN score_of_chunks(mask, years, data, v,
                             IndexRange(0, index - cutoff_length),
                             IndexRange(index + cutoff_length + 1, T),
                             cutoff_length, chunk_max_length, chunk_min_length, strict)
        ELSE ZeroScore

\* lines 300-351: whether the voxel v passes the boundary test, and the
\* chunks it is left with
passes_boundary(T, v, cutoff_length) ==
    v[1] - cutoff_length >= 0 /\ v[1] + cutoff_length + 1 <= T

voxel_chunks(T, mask, v, cutoff_length, chunk_max_length) ==
    trim_chunks(mask, v,
                IndexRange(0, v[1] - cutoff_length),
                IndexRange(v[1] + cutoff_length + 1, T),
                cutoff_length, chunk_max_length)

\* floor of the square root of a natural number
RECURSIVE Newton(_, _)
Newton(n, r) ==
    LET next == (r + n \div r) \div 2
    IN  IF next >= r THEN r ELSE Newton(n, next)

ISqrt(n) == IF n = 0 THEN 0 ELSE Newton(n, n)

\* floor of 100 * sqrt(q) for a fraction q
Sqrt100(q) == ISqrt((q[1] * 10000) \div q[2])

ScoreIsZero(s) == s.kind = "zero" \/ (s.kind = "ratio" /\ s.diff[1] = 0)

\* score > 100, that is diff / 50 > sqrt(v1) + sqrt(v2): decided from the
\* integer parts of 100 * sqrt(v) where they settle it, exactly otherwise
ExceedsHundred(s) ==
    \/ s.kind = "sentinel"
    \/ /\ s.kind = "ratio"
       /\ LET lo == Sqrt100(s.v1) + Sqrt100(s.v2)
          IN  IF 2 * s.diff[1] >= (lo + 2) * s.diff[2] THEN TRUE
              ELSE IF 2 * s.diff[1] <= lo * s.diff[2] THEN FALSE
              ELSE LET a == QScale(1, 50, s.diff)
                       b == QSub(QSub(Norm(<<a[1] * a[1], a[2] * a[2]>>), s.v1), s.v2)
                   IN  /\ b[1] > 0
                       /\ b[1] * b[1] * s.v1[2] * s.v2[2]
                              > 4 * s.v1[1] * s.v2[1] * b[2] * b[2]

\* the projection with the clamp comparing against the largest value, which
\* no value exceeds
Projected_unclamped(column) ==
    IF \E s \in column : s.kind = "nan" THEN [kind |-> "zero", of |-> {}]
    ELSE IF \A s \in column : ScoreIsZero(s) THEN [kind |-> "zero", of |-> {}]
    ELSE [kind |-> "max", of |-> {s \in column : ~ScoreIsZero(s)}]

\* lines 377-381: the largest score of a column, nan and values above 100
\* replaced by 0; a largest score that stays is held as the set of the
\* column's non-zero scores
Projected(column) ==
    IF \E s \in column : s.kind = "nan" THEN [kind |-> "zero", of |-> {}]
    ELSE IF \E s \in column : ExceedsHundred(s) THEN [kind |-> "zero", of |-> {}]
    ELSE IF \A s \in column : ScoreIsZero(s) THEN [kind |-> "zero", of |-> {}]
    ELSE [kind |-> "max", of |-> {s \in column : ~ScoreIsZero(s)}]

compute_measure15j(shp, mask, years, data, cutoff_length, chunk_max_length, chunk_min_length, strict) ==
    LET scores == [v \in mask |->
                      voxel_score(shp[1], mask, years, data, v, cutoff_length,
                                  chunk_max_length, chunk_min_length, strict)]
        measure15j_3d == [v \in Lattice(shp) |->
                             IF v \in mask THEN scores[v] ELSE ZeroScore]
    IN  IF \E v \in mask : scores[v].kind = "raise"
        THEN [raised |-> TRUE, measure15j_3d |-> <<>>, measure15j |-> <<>>]
        ELSE [raised |-> FALSE,
              measure15j_3d |-> measure15j_3d,
              measure15j |->
                  [c \in {<<y, x>> : y \in 0..(shp[2] - 1), x \in 0..(shp[3] - 1)} |->
                      Projected({measure15j_3d[<<t, c[1], c[2]>>] :
                                     t \in 0..(shp[1] - 1)})]]

-----------------------------------------------------------------------------
(* SpecMeasure: the abruptness of the voxels of an edge mask is measured.   *)

MeasT == 10
MaxEdges == 2

CutoffLengths == {0, 1}
ChunkMaxLengths == {1, 2}
ChunkMinLengths == {0, 1, 2}

\* series of one column: flat, alternating, rising, with or without a step
\* of height 1 or 60 in the middle; and one with a clean early step followed
\* by a step within alternation
SeriesPool(T) ==
    {[t \in 0..(T - 1) |-> a * (t % 2) + (IF t < T \div 2 THEN 0 ELSE h)] :
         a \in {0, 1}, h \in {0, 1, 60}}
        \cup {[t \in 0..(T - 1) |-> t]}
        \cup {[t \in 0..(T - 1) |->
                  IF t < 2 THEN 0
                  ELSE IF t < T \div 2 THEN 1
                  ELSE 1 + (t % 2) + (IF t < T \div 2 + 2 THEN 0 ELSE 1)]}

MeasureInit ==
    /\ pc = "measure"
    /\ shape = <<MeasT, 1, 1>>
    /\ edges \in SmallSubsets(Lattice(shape), MaxEdges)
    /\ \E series \in SeriesPool(MeasT) :
           target = [ years |-> [t \in 0..(MeasT - 1) |-> 1850 + t],
                      data  |-> [v \in Lattice(shape) |-> series[v[1]]] ]
    /\ call \in [ cutoff_length    : CutoffLengths,
                  chunk_max_length : ChunkMaxLengths,
                  chunk_min_length : ChunkMinLengths ]
    /\ argv = Null /\ config = Null /\ calibration = Null /\ thresholds = Null
    /\ data_mask = Null /\ sobel_data = Null /\ sobel_maxima = {}
    /\ error = Null /\ control = Null /\ result = Null
    /\ output = {}

ComputeMeasure ==
    /\ pc = "measure"
    /\ \E strict \in BOOLEAN :
           LET r == compute_measure15j(shape, edges, target.years, target.data,
                                       call.cutoff_length, call.chunk_max_length,
                                       call.chunk_min_length, strict)
           IN  IF r.raised
               THEN pc' = "raised" /\ error' = "ValueError" /\ UNCHANGED result
               ELSE pc' = "measured" /\ result' = r /\ UNCHANGED error
    /\ UNCHANGED <<output, control, target, call, argv, config, calibration, thresholds,
                   shape, data_mask, sobel_data, sobel_maxima, edges>>

MeasureNext == ComputeMeasure

SpecMeasure == MeasureInit /\ [][MeasureNext]_vars

\* the mask voxels within cutoff_length of a time boundary, the ones exactly
\* cutoff_length away included
NearBoundary ==
    {v \in edges : \/ v[1] <= call.cutoff_length
                   \/ v[1] >= shape[1] - 1 - call.cutoff_length}

\* C10: when compute_measure15j is called with chunk_min_length >= 1, every
\* mask voxel whose time index is below, above or exactly cutoff_length away
\* from a time boundary has score 0 in the 3D score field.
C10_BoundaryVoxelsScoreZero ==
    (pc = "measured" /\ call.chunk_min_length >= 1) =>
        \A v \in NearBoundary : ScoreIsZero(result.measure15j_3d[v])

\* a mask holding a voxel exactly cutoff_length >= 1 away from a boundary
\* next to a voxel that received a finite non-zero score
C10_Witness ==
    /\ pc = "measured"
    /\ call.chunk_min_length >= 1
    /\ call.cutoff_length >= 1
    /\ \E v \in edges : v[1] = call.cutoff_length \/ v[1] = shape[1] - 1 - call.cutoff_length
    /\ \E w \in edges : /\ result.measure15j_3d[w].kind = "ratio"
                        /\ ~ScoreIsZero(result.measure15j_3d[w])

\* a value that is nan or greater than 100
Degenerate(s) == s.kind = "nan" \/ ExceedsHundred(s)

\* C11 (as claimed): after compute_measure15j returns, no value of the 3D
\* score field and no value of its per-column maximum projection is nan or
\* greater than 100, and the 3D score field is 0 wherever the edge mask is 0.
C11_NoDegenerateValueReturned ==
    pc = "measured" =>
        /\ \A v \in Lattice(shape) : ~Degenerate(result.measure15j_3d[v])
        /\ \A c \in DOMAIN result.measure15j :
               /\ result.measure15j[c].kind \in {"zero", "max"}
               /\ \A s \in result.measure15j[c].of : ~Degenerate(s)
        /\ \A v \in Lattice(shape) \ edges : result.measure15j_3d[v] = ZeroScore


Range(s) == {s[i] : i \in 1..Len(s)}

\* the time indices of the mask voxels of v's column that lie in a chunk
OtherEdges(chunk, v) == {t \in Range(chunk) : <<t, v[2], v[3]>> \in edges}

\* C13 (as claimed): when another mask voxel of the column lies inside a
\* chunk already cut to cutoff and maximum length, the chunk is cut at the
\* nearest such voxel, the latest one before and the earliest one after, with
\* the same clearance k on both sides: the retained before-chunk starts k
\* steps after that voxel and the retained after-chunk ends k steps before
\* it, where k is cutoff_length (counted from the voxel) or cutoff_length + 1
\* (cutoff_length samples left out); a chunk with no sample left is empty.
C13_SameClearanceBothSides ==
    pc \in {"measured", "raised"} =>
        \E k \in {call.cutoff_length, call.cutoff_length + 1} :
            \A v \in edges :
                passes_boundary(shape[1], v, call.cutoff_length) =>
                    LET ch == voxel_chunks(shape[1], edges, v, call.cutoff_length,
                                           call.chunk_max_length)
                        e1 == OtherEdges(ch.chunk1_short, v)
                        e2 == OtherEdges(ch.chunk2_short, v)
                    IN  /\ e1 # {} =>
                               Range(ch.chunk1_data_short)
                                   = {t \in Range(ch.chunk1_short) : t >= MaxInt(e1) + k}
                        /\ e2 # {} =>
                               Range(ch.chunk2_data_short)
                                   = {t \in Range(ch.chunk2_short) : t <= MinInt(e2) - k}


\* C14 (as claimed): the minimum-length check comes after both trims; a mask
\* voxel for which either final chunk has fewer than chunk_min_length
\* samples, a chunk emptied by trimming included, is scored 0 without
\* raising, for every chunk_min_length >= 0 and every mask; and the data and
\* the time samples given to each regression have equal length.
C14_InsufficientWindowScoresZero ==
    pc \in {"measured", "raised"} =>
        \A v \in edges :
            passes_boundary(shape[1], v, call.cutoff_length) =>
                LET ch == voxel_chunks(shape[1], edges, v, call.cutoff_length,
                                       call.chunk_max_length)
                    N1 == Len(ch.chunk1_data_short)
                    N2 == Len(ch.chunk2_data_short)
                    short == N1 < call.chunk_min_length \/ N2 < call.chunk_min_length
                IN  /\ (short \/ N1 = 0 \/ N2 = 0) =>
                           \A strict \in BOOLEAN :
                               voxel_score(shape[1], edges, target.years, target.data,
                                           v, call.cutoff_length, call.chunk_max_length,
                                           call.chunk_min_length, strict) = ZeroScore
                    /\ ~short => /\ Len(ch.chunk1_years_short) = N1
                                 /\ Len(ch.chunk2_years_short) = N2


\* the values of the samples of a chunk of v's column
ChunkData(chunk, v) == [i \in 1..Len(chunk) |-> target.data[<<chunk[i], v[2], v[3]>>]]

\* C15: a voxel that reaches the regressions with both chunks of zero
\* standard deviation scores 0 in the 3D field if the two chunk means are
\* equal and the sentinel 9e99 otherwise; and a column that holds a sentinel
\* voxel, or any voxel scoring above 100, has projected score 0, whatever the
\* other voxels of the column score.
C15_ZeroVarianceRule ==
    pc = "measured" =>
        /\ \A v \in edges :
               passes_boundary(shape[1], v, call.cutoff_length) =>
                   LET ch == voxel_chunks(shape[1], edges, v, call.cutoff_length,
                                          call.chunk_max_length)
                       y1 == ChunkData(ch.chunk1_data_short, v)
                       y2 == ChunkData(ch.chunk2_data_short, v)
                   IN  (/\ Len(y1) >= call.chunk_min_length
                        /\ Len(y2) >= call.chunk_min_length
                        /\ Len(y1) > 0 /\ Len(y2) > 0
                        /\ Variance(y1)[1] = 0 /\ Variance(y2)[1] = 0)
                       => result.measure15j_3d[v] =
                              IF Sum(y1) * Len(y2) = Sum(y2) * Len(y1)
                              THEN ZeroScore ELSE Sentinel
        /\ \A v \in Lattice(shape) :
               ExceedsHundred(result.measure15j_3d[v])
                   => result.measure15j[<<v[2], v[3]>>].kind = "zero"

\* a column that holds a sentinel voxel next to a voxel with a score in
\* (0, 100], both from chunks of two samples, projected to 0
C15_Witness ==
    /\ pc = "measured"
    /\ call.chunk_min_length = 2
    /\ \E u, w \in edges :
           /\ u[2] = w[2] /\ u[3] = w[3]
           /\ result.measure15j_3d[u] = Sentinel
           /\ result.measure15j_3d[w].kind = "ratio"
           /\ ~ScoreIsZero(result.measure15j_3d[w])
           /\ ~ExceedsHundred(result.measure15j_3d[w])
           /\ result.measure15j[<<u[2], u[3]>>].kind = "zero"

-----------------------------------------------------------------------------
(* workflow.py: generate_report, step by step.                             *)

\* the positional parameters of calibrate_sobel(box, data, delta_t, delta_d)
CalibratorParameters == 4
\* the positional arguments of the call in compute_calibration:
\* calibrate_sobel(quartile, box, smooth_data, sobel_delta_t, sobel_delta_x)
CalibratorArguments == 5

\* compute_calibration: the quartile is looked up, the control field is
\* smoothed, and calibrate_sobel is called; a call whose arguments do not
\* match the parameters raises TypeError
compute_calibration(cfg, ctl) ==
    LET quartile == IndexOf(QUARTILES, cfg.calibration_quartile)
    IN  IF CalibratorArguments # CalibratorParameters
        THEN [raised |-> "TypeError", record |-> Null]
        ELSE [raised |-> Null,
              record |-> calibrate_sobel(ctl.box, ctl.mask, ctl.sbc)]

\* the parsed options generate_report reads before detection
ReportConfigs ==
    [ annual : BOOLEAN, taper : BOOLEAN,
      calibration_quartile : {QUARTILES[i] : i \in 1..Len(QUARTILES)} ]

\* what the run finds on disk: whether the output folder is already there,
\* whether the target and the control files can be opened
Environments ==
    [ folder_exists : BOOLEAN, data_files : BOOLEAN, control_files : BOOLEAN ]

\* control runs with unit cell areas and no mask
ReportControls ==
    {r \in ControlRuns : /\ r.mask = NoMask
                         /\ \A c \in DOMAIN r.box.relative_grid_area :
                                r.box.relative_grid_area[c] = 1
                         /\ \A u, v \in DOMAIN r.sbc : r.sbc[u][4] = r.sbc[v][4]}

ReportInit ==
    /\ pc = "start"
    /\ config \in ReportConfigs
    /\ call \in Environments
    /\ control \in ReportControls
    /\ output = {}
    /\ argv = Null /\ calibration = Null /\ thresholds = Null
    /\ shape = Null /\ data_mask = Null /\ sobel_data = Null
    /\ sobel_maxima = {} /\ edges = {} /\ error = Null
    /\ target = Null /\ result = Null

\* lines 857-858: output_path.mkdir(parents=True, exist_ok=True)
MakeOutputFolder ==
    /\ pc = "start"
    /\ pc' = "folder"
    /\ output' = IF call.folder_exists THEN output ELSE output \cup {"output_folder"}
    /\ UNCHANGED <<argv, config, calibration, thresholds, shape, data_mask,
                   sobel_data, sobel_maxima, edges, error, control, target,
                   call, result>>

\* line 859: open_data_files
OpenDataFiles ==
    /\ pc = "folder"
    /\ IF call.data_files
       THEN pc' = "data" /\ UNCHANGED error
       ELSE pc' = "aborted" /\ error' = "OSError"
    /\ UNCHANGED <<argv, config, calibration, thresholds, shape, data_mask,
                   sobel_data, sobel_maxima, edges, control, target, call,
                   result, output>>

\* line 860: open_pi_control
OpenPiControl ==
    /\ pc = "data"
    /\ IF call.control_files
       THEN pc' = "control" /\ UNCHANGED error
       ELSE pc' = "aborted" /\ error' = "OSError"
    /\ UNCHANGED <<argv, config, calibration, thresholds, shape, data_mask,
                   sobel_data, sobel_maxima, edges, control, target, call,
                   result, output>>

\* lines 861-866: annual_mean or select_month of both data sets
SelectPeriod ==
    /\ pc = "control"
    /\ pc' = "selected"
    /\ UNCHANGED <<argv, config, calibration, thresholds, shape, data_mask,
                   sobel_data, sobel_maxima, edges, error, control, target,
                   call, result, output>>

\* line 867: compute_calibration; an exception leaves generate_report, which
\* catches nothing and removes nothing
ComputeCalibration ==
    /\ pc = "selected"
    /\ LET r == compute_calibration(config, control)
       IN  IF r.raised # Null
           THEN pc' = "aborted" /\ error' = r.raised /\ UNCHANGED calibration
           ELSE pc' = "calibrated" /\ calibration' = r.record /\ UNCHANGED error
    /\ UNCHANGED <<argv, config, thresholds, shape, data_mask, sobel_data,
                   sobel_maxima, edges, control, target, call, result, output>>

ReportNext ==
    MakeOutputFolder \/ OpenDataFiles \/ OpenPiControl \/ SelectPeriod
        \/ ComputeCalibration

SpecReport == ReportInit /\ [][ReportNext]_vars

\* C12 (as claimed): a fatal error at any stage of generate_report aborts the
\* run leaving no partial output persisted: no output folder, plot or file
\* created by the run exists after the abort.
C12_NoOutputAfterAbort ==
    pc = "aborted" => output = {}

\* C17 (as claimed): in generate_report, once the target and the control
\* data sets are open, compute_calibration hands the Calibrator exactly the
\* inputs it accepts and returns its record without raising, so the run
\* stands at "calibrated", with no error, before edge detection starts.
C17_CalibrationCompletes ==
    (call.data_files /\ call.control_files
        /\ pc \notin {"start", "folder", "data", "control", "selected"})
        => (pc = "calibrated" /\ error = Null)

(***************************************************************************)
(* The target data set on its way from compute_canny_edges to make_report. *)
(* taper_masked_area lives in hypercc.filters; compute_canny_edges calls   *)
(* it on data_set.data and discards what it returns (line 241), so the     *)
(* tapering the specification describes (the field decays to zero near     *)
(* mask boundaries, over a margin and a blend length) acts on the array    *)
(* it is given.                                                            *)
(***************************************************************************)

\* line 241: taper_masked_area(data, [0, 5, 5], 50)
TaperSize == <<0, 5, 5>>
TaperLength == 50

\* distance of v to the nearest masked cell within the reach of the margin
\* on the time axis; 0 - 1 when there is none
MaskDistance(v, mask, size) ==
    LET near == {w \in mask.cells : Abs(w[1] - v[1]) <= size[1]}
        dist(w) == IF Abs(w[2] - v[2]) > Abs(w[3] - v[3])
                   THEN Abs(w[2] - v[2]) ELSE Abs(w[3] - v[3])
    IN  IF near = {} THEN 0 - 1 ELSE MinInt({dist(w) : w \in near})

\* the tapered values: 0 within the margin of a masked cell, blended back to
\* the value over the blend length, the value itself elsewhere and under
\* the mask
taper_masked_area(shp, data, mask, size, length) ==
    [v \in Lattice(shp) |->
        LET d == MaskDistance(v, mask, size)
            margin == IF size[2] > size[3] THEN size[2] ELSE size[3]
        IN  IF v \in mask.cells \/ d < 0 \/ d >= margin + length THEN data[v]
            ELSE IF d <= margin THEN 0
            ELSE (data[v] * (d - margin)) \div length]

\* the values a voxel of the target takes in the model
TargetValues == {1, 2}

TaperShape == <<NT, 1, 2>>

TaperInit ==
    /\ pc = "canny"
    /\ shape = TaperShape
    /\ config \in [taper : BOOLEAN]
    /\ data_mask \in {NoMask, MaskedArray({})}
                        \cup {MaskedArray({w}) : w \in Lattice(TaperShape)}
    /\ \E data \in [Lattice(TaperShape) -> TargetValues] :
           target = [ years |-> [t \in 0..(NT - 1) |-> 1850 + t],
                      data  |-> data ]
    /\ edges \in SmallSubsets(Lattice(TaperShape), 1)
    /\ argv = Null /\ calibration = Null /\ thresholds = Null
    /\ sobel_data = Null /\ sobel_maxima = {}
    /\ error = Null /\ control = Null /\ call = Null /\ result = Null
    /\ output = {}

\* compute_canny_edges, lines 238-241: data = data_set.data is the array of
\* the data set itself, tapered when config.taper is set and it is masked
TaperTarget ==
    /\ pc = "canny"
    /\ pc' = "tapered"
    /\ target' = IF config.taper /\ data_mask.masked
                 THEN [target EXCEPT !.data =
                          taper_masked_area(shape, target.data, data_mask,
                                            TaperSize, TaperLength)]
                 ELSE target
    /\ UNCHANGED <<output, control, call, result, argv, config, calibration,
                   thresholds, shape, data_mask, sobel_data, sobel_maxima,
                   edges, error>>

\* make_report, line 748: compute_measure15j(mask, years, data_set.data,
\* 2, 30, 15) is handed the array the data set holds at that point
PassToMeasure ==
    /\ pc = "tapered"
    /\ pc' = "measure"
    /\ call' = [ mask |-> edges, years |-> target.years, data |-> target.data,
                 cutoff_length |-> 2, chunk_max_length |-> 30,
                 chunk_min_length |-> 15 ]
    /\ UNCHANGED <<output, control, target, result, argv, config, calibration,
                   thresholds, shape, data_mask, sobel_data, sobel_maxima,
                   edges, error>>

TaperNext == TaperTarget \/ PassToMeasure

SpecTaper == TaperInit /\ [][TaperNext]_vars

\* C16 (as claimed): the target Field is an immutable input: no stage before
\* the abruptness estimation changes the values of data_set.data, so what
\* compute_measure15j receives is the original, untapered data, also when
\* tapering is enabled and the data carries a mask.
C16_TargetDataNeverChanges ==
    [][target'.data = target.data]_vars


(***************************************************************************)
(* compute_maxTgrad: the map of the largest time gradient of each column.  *)
(* The channels of canny['sobel'] hold whole numbers here; a quotient is a *)
(* plain fraction, and <<n, 0>> stands for a value that is not finite.     *)
(***************************************************************************)

Columns(shp) == {<<v[2], v[3]>> : v \in Lattice(shp)}

\* line 272: tgrad = canny['sobel'][0] / canny['sobel'][3]
tgrad(sd, v) ==
    IF sd[4][v] = 0 THEN <<sd[1][v], 0>> ELSE Norm(<<sd[1][v], sd[4][v]>>)

RECURSIVE QSumTo(_, _)
QSumTo(s, t) == IF t < 0 THEN <<0, 1>> ELSE QAdd(s[t], QSumTo(s, t - 1))

QMax(S) == CHOOSE m \in S : \A n \in S : QLeq(n, m)

\* line 273: tgrad - np.mean(tgrad, axis=0), for the column col
tgrad_residual(shp, sd, col) ==
    LET T    == shp[1]
        tg   == [t \in 0..(T - 1) |-> tgrad(sd, <<t, col[1], col[2]>>)]
        mean == QScale(1, T, QSumTo(tg, T - 1))
    IN  [t \in 0..(T - 1) |-> QSub(tg[t], mean)]

\* a value that is not finite anywhere in a column makes its mean, every
\* residual and their maximum nan
ColumnIsFinite(shp, sd, col) ==
    \A t \in 0..(shp[1] - 1) : sd[4][<<t, col[1], col[2]>>] # 0

\* the maximum taken over the edge voxels of the column only
compute_maxTgrad_edge_voxels(shp, sd, edg) ==
    [col \in Columns(shp) |->
        LET res == tgrad_residual(shp, sd, col)
            at  == {t \in 0..(shp[1] - 1) : <<t, col[1], col[2]>> \in edg}
        IN  IF ~ColumnIsFinite(shp, sd, col) \/ at = {} THEN <<0, 1>>
            ELSE QMax({QAbs(res[t]) : t \in at})]

\* lines 271-280
compute_maxTgrad(shp, sd, edg) ==
    LET maxm(col) == IF \E v \in edg : <<v[2], v[3]>> = col THEN 1 ELSE 0
        maxTgrad ==
            [col \in Columns(shp) |->
                IF ~ColumnIsFinite(shp, sd, col)
                THEN <<0, 1>>                       \* nan, set to 0 (line 277)
                ELSE LET res == tgrad_residual(shp, sd, col)
                     IN  QScale(maxm(col), 1,
                                QMax({QAbs(res[t]) : t \in 0..(shp[1] - 1)}))]
        top == QMax({maxTgrad[col] : col \in Columns(shp)})
    IN  [col \in Columns(shp) |->
            IF ~QLeq(maxTgrad[col], top) THEN <<0, 1>> ELSE maxTgrad[col]]

\* gradient vectors <<d/dt, d/dlat, d/dlon, norm>> of a target voxel: the
\* norm is the length of the vector, 0 where the field is flat
TgradPool == {<<0, 0, 0, 0>>, <<3, 4, 0, 5>>, <<0 - 4, 0, 3, 5>>}

TgradShape == <<NT, 1, 2>>

TgradInit ==
    /\ pc = "canny"
    /\ shape = TgradShape
    /\ \E field \in [Lattice(TgradShape) -> TgradPool] :
           sobel_data = [c \in 1..4 |-> [v \in Lattice(TgradShape) |-> field[v][c]]]
    /\ edges \in SmallSubsets(Lattice(TgradShape), MaxMaxima)
    /\ argv = Null /\ config = Null /\ calibration = Null /\ thresholds = Null
    /\ data_mask = Null /\ sobel_maxima = {}
    /\ error = Null /\ control = Null /\ target = Null /\ call = Null
    /\ result = Null
    /\ output = {}

\* make_report, line 745: maxTgrad = compute_maxTgrad(canny_edges)
ComputeMaxTgrad ==
    /\ pc = "canny"
    /\ pc' = "maxTgrad"
    /\ result' = compute_maxTgrad(shape, sobel_data, edges)
    /\ UNCHANGED <<output, control, target, call, argv, config, calibration,
                   thresholds, shape, data_mask, sobel_data, sobel_maxima,
                   edges, error>>

TgradNext == ComputeMaxTgrad

SpecTgrad == TgradInit /\ [][TgradNext]_vars

\* |dt/norm - column time mean| at the time step t of the column col
AbsResidual(col, t) == QAbs(tgrad_residual(shape, sobel_data, col)[t])
EdgeSteps(col) == {t \in 0..(shape[1] - 1) : <<t, col[1], col[2]>> \in edges}

\* C18 (as claimed): for every column the maximum-time-gradient value is the
\* maximum over time of |dt/norm - column time mean| times the edge mask at
\* that same voxel, that is the maximum over the column's edge voxels only;
\* it is 0 for a column with no edge voxel, and nan is replaced by 0.
C18_MaxOverEdgeVoxels ==
    pc = "maxTgrad" =>
        \A col \in Columns(shape) :
            IF ~ColumnIsFinite(shape, sobel_data, col) \/ EdgeSteps(col) = {}
            THEN result[col] = <<0, 1>>
            ELSE /\ \A t \in EdgeSteps(col) : QLeq(AbsResidual(col, t), result[col])
                 /\ \E t \in EdgeSteps(col) : AbsResidual(col, t) = result[col]

\* C18 (amended): for every column with an edge voxel the value is the
\* maximum of |dt/norm - column time mean| over all time steps of the
\* column, edge voxels or not; it is 0 for a column with no edge voxel, and
\* 0 where the quotient is not finite somewhere in the column.
C18_MaxOverWholeColumn ==
    pc = "maxTgrad" =>
        \A col \in Columns(shape) :
            IF ~ColumnIsFinite(shape, sobel_data, col) \/ EdgeSteps(col) = {}
            THEN result[col] = <<0, 1>>
            ELSE /\ \A t \in 0..(shape[1] - 1) :
                        QLeq(AbsResidual(col, t), result[col])
                 /\ \E t \in 0..(shape[1] - 1) : AbsResidual(col, t) = result[col]

\* a column with an edge voxel whose largest residual lies off its edge
\* voxels, next to a column without edge
C18_Witness ==
    /\ pc = "maxTgrad"
    /\ \E col \in Columns(shape) :
           /\ ColumnIsFinite(shape, sobel_data, col)
           /\ EdgeSteps(col) # {}
           /\ \E t \in 0..(shape[1] - 1) \ EdgeSteps(col) :
                  /\ result[col] = AbsResidual(col, t)
                  /\ \A u \in EdgeSteps(col) :
                         ~QLeq(AbsResidual(col, t), AbsResidual(col, u))
    /\ \E col \in Columns(shape) : EdgeSteps(col) = {} /\ result[col] = <<0, 1>>

(***************************************************************************)
(* apply_mask_to_edges for every margin up to half the series.             *)
(***************************************************************************)

MarginShape == <<NT + 1, 1, 2>>

MarginInit ==
    /\ pc = "thinned"
    /\ shape = MarginShape
    /\ sobel_maxima \in SmallSubsets(Lattice(MarginShape), MaxCand)
    /\ data_mask \in {MaskedArray(S) : S \in SmallSubsets(Lattice(MarginShape), 1)}
    /\ call \in [time_margin : 0..(MarginShape[1] \div 2)]
    /\ argv = Null /\ config = Null /\ calibration = Null /\ thresholds = Null
    /\ sobel_data = Null /\ edges = {}
    /\ error = Null /\ control = Null /\ target = Null /\ result = Null
    /\ output = {}

\* sobel_maxima = apply_mask_to_edges(sobel_maxima, data.mask, time_margin)
ApplyMaskToEdges ==
    /\ pc = "thinned"
    /\ pc' = "maxima"
    /\ sobel_maxima' = apply_mask_to_edges(shape, sobel_maxima, data_mask.cells,
                                           call.time_margin)
    /\ UNCHANGED <<output, control, target, call, result, argv, config,
                   calibration, thresholds, shape, data_mask, sobel_data,
                   edges, error>>

MarginNext == ApplyMaskToEdges

SpecMargin == MarginInit /\ [][MarginNext]_vars

\* C19 (as claimed): for every margin m with 0 <= m <= T/2, m = 0 included,
\* apply_mask_to_edges changes only the margins and the masked cells: a
\* voxel at time index t with m <= t < T - m whose cell is not masked keeps
\* its candidate value, and exactly the first m and last m time steps and
\* the masked cells are set to 0.
C19_OnlyMarginsAndMaskedCleared ==
    [][\A v \in Lattice(shape) :
          LET m == call.time_margin
              kept == m <= v[1] /\ v[1] < shape[1] - m /\ v \notin data_mask.cells
          IN  (v \in sobel_maxima') <=> (kept /\ v \in sobel_maxima)]_vars

(***************************************************************************)
(* The region growing of the hysteresis kernel, one voxel at a time.       *)
(* hysteresis_thresholding hands the candidates and the bounds 1/upper and *)
(* 1/lower to hyper_canny.cp_double_threshold; the kernel is described as  *)
(* growing the mask from the strong voxels over the weak voxels through    *)
(* the full 3D neighbourhood until no more voxels are added. The transpose *)
(* of the axes on the way in and out does not change which voxels touch.   *)
(***************************************************************************)

\* the voxels of the candidate mask whose last channel is below a bound:
\* below a they seed the result, below b the result may grow over them
BelowBound(data, mask, bound) ==
    {v \in mask : Less(data[4][v], bound)}

\* neighbours sharing a face only
Adjacent6(v, w) ==
    Abs(v[1] - w[1]) + Abs(v[2] - w[2]) + Abs(v[3] - w[3]) = 1

Frontier_faces(S, weak) ==
    {v \in weak \ S : \E w \in S : Adjacent6(v, w)}

\* the weak voxels outside S that touch S: what one more round can add
Frontier(S, weak) ==
    {v \in weak \ S : \E w \in S : Adjacent26(v, w)}

GrowShape == <<NT, 1, 2>>

\* on entry of the kernel: hysteresis_thresholding has computed the
\* thresholds and passes a = 1/upper and b = 1/lower
GrowInit ==
    /\ pc = "kernel"
    /\ shape = GrowShape
    /\ sobel_maxima \in SmallSubsets(Lattice(GrowShape), MaxCand)
    /\ \E lv \in [sobel_maxima -> Levels] :
          sobel_data = GradientField(GrowShape, lv, <<1, 2>>)
    /\ config \in HystConfigs
    /\ calibration = HystCalibration
    /\ thresholds = get_thresholds(config, calibration)
    /\ call = [a |-> Div(One, thresholds[2]), b |-> Div(One, thresholds[1])]
    /\ data_mask = NoMask
    /\ argv = Null /\ edges = {} /\ error = Null
    /\ control = Null /\ target = Null /\ result = Null
    /\ output = {}

\* the result starts as the strong voxels
SeedStrong ==
    /\ pc = "kernel"
    /\ pc' = "growing"
    /\ edges' = BelowBound(sobel_data, sobel_maxima, call.a)
    /\ UNCHANGED <<output, control, target, call, result, argv, config,
                   calibration, thresholds, shape, data_mask, sobel_data,
                   sobel_maxima, error>>

\* one addition: a weak voxel touching the result joins it
AddVoxel ==
    /\ pc = "growing"
    /\ \E v \in Frontier(edges, BelowBound(sobel_data, sobel_maxima, call.b)) :
           edges' = edges \cup {v}
    /\ UNCHANGED <<output, control, target, call, result, argv, config,
                   calibration, thresholds, shape, data_mask, sobel_data,
                   sobel_maxima, error, pc>>

\* nothing is left to add: the kernel returns
ReturnMask ==
    /\ pc = "growing"
    /\ Frontier(edges, BelowBound(sobel_data, sobel_maxima, call.b)) = {}
    /\ pc' = "edges"
    /\ UNCHANGED <<output, control, target, call, result, argv, config,
                   calibration, thresholds, shape, data_mask, sobel_data,
                   sobel_maxima, edges, error>>

GrowNext == SeedStrong \/ AddVoxel \/ ReturnMask

SpecGrow == GrowInit /\ [][GrowNext]_vars

\* the kernel is a sequential loop: while it can take a step it takes one
SpecGrowFair == SpecGrow /\ WF_vars(GrowNext)

\* no weak voxel outside the mask is 26-adjacent to a voxel of the mask
GrowthClosed ==
    \A v \in WeakVoxels \ edges : \A w \in edges : ~Adjacent26(v, w)

\* C20: the region growing from the strong voxels terminates: after
\* finitely many additions the kernel returns a mask such that no weak voxel
\* 26-adjacent to it remains outside it, and the mask only ever grows (a
\* voxel once added is never removed).
C20_GrowthTerminates ==
    /\ <>(pc = "edges" /\ GrowthClosed)
    /\ [][edges \subseteq edges']_vars

\* C20 witness: the kernel has returned a mask holding a weak voxel that
\* touches no strong voxel, added after the voxel that links it to one.
C20_Witness ==
    /\ pc = "edges"
    /\ \E v \in edges \ StrongVoxels :
           \A w \in StrongVoxels : ~Adjacent26(v, w)

(***************************************************************************)
(* compute_canny_edges as a whole: what it returns once the signal check   *)
(* has passed.                                                             *)
(***************************************************************************)

\* C21 (as claimed): whenever compute_canny_edges returns, the check of the
\* maximum signal against the upper threshold having passed, the returned
\* EdgeMask holds at least one edge voxel: an empty EdgeMask is never
\* returned without an error.
C21_ReturnedMaskNotEmpty ==
    pc = "edges" => (error = Null /\ edges # {})

(***************************************************************************)
(* The order of the two thresholds get_thresholds returns.                 *)
(***************************************************************************)

\* C22 (as claimed): for any calibration record whose time and distance
\* sequences are non-negative and non-decreasing and any quartile choice,
\* the combined magnitudes satisfy mag[3] <= mag[4]; so with the upper
\* reference pi-control-max, either lower reference, and non-negative
\* fractions with frac_lower <= frac_upper, the returned pair satisfies
\* lower <= upper.
C22_LowerNotAboveUpper ==
    ( /\ pc = "thresholds"
      /\ config.upper_threshold_ref = "pi-control-max"
      /\ config.lower_threshold_ref \in {"pi-control-3", "pi-control-max"}
      /\ Leq(float(config.lower_threshold_frac[1]),
             float(config.upper_threshold_frac[1])) )
    => /\ Leq(mag_quartiles(config, calibration)[4],
              mag_quartiles(config, calibration)[5])
       /\ Leq(thresholds[1], thresholds[2])

=============================================================================
